---- MODULE Spec2Model ----
(***************************************************************************)
(* A model of vii (src/main.rs): a modal terminal text editor.  The state  *)
(* is the EditorConfig struct, the file on disk and the position of main's *)
(* event loop.  Characters are code points (naturals); a row's content is  *)
(* a sequence of code points and its length, as in Rust's String::len, is  *)
(* the number of UTF-8 bytes.                                              *)
(***************************************************************************)
EXTENDS Integers, Sequences, FiniteSets, TLC

VARIABLES
    rows,             \* EditorConfig.buffer.rows: sequence of row contents
    cx,               \* EditorConfig.cx (u16)
    cy,               \* EditorConfig.cy (u16)
    screen_rows,      \* EditorConfig.screen_rows (u16)
    screen_cols,      \* EditorConfig.screen_cols (u16)
    row_offset,       \* EditorConfig.row_offset (usize)
    mode,             \* EditorConfig.mode
    command_buffer,   \* EditorConfig.command_buffer
    status_msg,       \* EditorConfig.status_msg
    filename,         \* EditorConfig.filename: <<>> is None, <<name>> is Some(name)
    disk,             \* the file named by filename: [exists, text]
    save_attempts,    \* the texts handed to File::create/write_all by the last key
    screen_y,         \* the cursor row last sent to the terminal by refresh_screen
    buf,              \* main's buf[0]: the byte last read, 0 before a read
    pc,               \* position of main: "refresh", "read", "exited", "panicked"
    overflow_checks,  \* the build: TRUE panics on integer overflow, FALSE wraps
    keyboard,         \* the bytes this session's input stream can deliver
    row_test,         \* a Row under test: [step, line, at, c, content]
    script_test       \* a key script under test: [rows, cx, cy, played, todo]

vars == <<rows, cx, cy, screen_rows, row_offset, mode, command_buffer, status_msg,
          filename, disk, save_attempts, screen_y, buf, pc, overflow_checks, keyboard,
          row_test, screen_cols, script_test>>

----------------------------------------------------------------------------
(* Bounds of the model.                                                    *)

\* Growth of the document stops at this many bytes in total.
MaxBytes == 2
\* Growth of the document stops at this many rows.
MaxRows == 2
\* Growth of the command buffer stops at this many characters.
MaxCmd == 2
\* Files of the scrolling sessions have up to this many lines.
MaxFileLines == 4
\* Terminals of the scrolling sessions report 0 up to this many rows.
MaxScreenRows == 4
\* The length of each line of the files of the scrolling sessions.
FileLineLen == 5
\* Row-level checks draw lines of up to this many characters.
MaxLineChars == 3
\* Terminals of the scrolling sessions report this many columns.
MaxScreenCols == 10
\* Key scripts start from documents of up to this many rows.
MaxScriptRows == 3

----------------------------------------------------------------------------
(* Program constants: the bytes the code matches on, and integer widths.   *)

KEY_h == 104
KEY_i == 105
KEY_j == 106
KEY_k == 107
KEY_l == 108
KEY_q == 113
KEY_w == 119
COLON == 58
SPACE == 32
ESC == 27
CR == 13
LF == 10
DEL == 127
BS == 8
NUL == 0
\* 0xE9 as char is U+00E9: not a control character, two bytes in a String.
E_ACUTE == 233
\* 0x85 as char is U+0085, a control character.
NEL == 133
\* u16::MAX + 1
U16 == 65536
FallbackRows == 24
FallbackCols == 80

----------------------------------------------------------------------------
(* Characters and strings.                                                 *)

\* char::len_utf8
Utf8Len(c) ==
    IF c < 128 THEN 1 ELSE IF c < 2048 THEN 2 ELSE IF c < 65536 THEN 3 ELSE 4

\* char::is_control: the Cc category, U+0000..U+001F and U+007F..U+009F
IsControl(c) == c < 32 \/ (c >= 127 /\ c <= 159)

RECURSIVE ByteLen(_)
\* String::len: the length in bytes
ByteLen(s) == IF s = << >> THEN 0 ELSE Utf8Len(Head(s)) + ByteLen(Tail(s))

\* The byte offset at which character i (1-based) of s starts.
CharStart(s, i) == ByteLen(SubSeq(s, 1, i - 1))

\* str::is_char_boundary
IsCharBoundary(s, at) ==
    \/ at = ByteLen(s)
    \/ \E i \in 1..Len(s) : CharStart(s, i) = at

\* The number of characters of s that lie before the boundary at.
CharsBefore(s, at) ==
    IF at = ByteLen(s) THEN Len(s)
    ELSE (CHOOSE i \in 1..Len(s) : CharStart(s, i) = at) - 1

Done(s) == [ok |-> TRUE, content |-> s]
Panic(s) == [ok |-> FALSE, content |-> s]

\* String::push
StringPush(s, c) == Append(s, c)

\* String::insert: panics unless at is a char boundary
StringInsert(s, at, c) ==
    IF ~IsCharBoundary(s, at) THEN Panic(s)
    ELSE LET n == CharsBefore(s, at)
         IN  Done(SubSeq(s, 1, n) \o <<c>> \o SubSeq(s, n + 1, Len(s)))

\* String::remove: panics unless at is the start of a character
StringRemove(s, at) ==
    IF at >= ByteLen(s) \/ ~IsCharBoundary(s, at) THEN Panic(s)
    ELSE LET n == CharsBefore(s, at)
         IN  Done(SubSeq(s, 1, n) \o SubSeq(s, n + 2, Len(s)))

\* String::split_off: panics unless at is a char boundary; [ok, head, tail]
StringSplitOff(s, at) ==
    IF ~IsCharBoundary(s, at) THEN [ok |-> FALSE, head |-> s, tail |-> << >>]
    ELSE LET n == CharsBefore(s, at)
         IN  [ok |-> TRUE, head |-> SubSeq(s, 1, n), tail |-> SubSeq(s, n + 1, Len(s))]

\* A Row::insert_char that appends wherever it is asked to insert.
RowInsertChar_append(content, at, c) == Done(StringPush(content, c))

\* Row::insert_char
RowInsertChar(content, at, c) ==
    IF at >= ByteLen(content) THEN Done(StringPush(content, c))
    ELSE StringInsert(content, at, c)

\* Row::delete_char
RowDeleteChar(content, at) ==
    IF at < ByteLen(content) THEN StringRemove(content, at)
    ELSE Done(content)

----------------------------------------------------------------------------
(* Integer arithmetic of the build.                                        *)

\* `as u16`: truncation to 16 bits
AsU16(n) == n % U16

\* u16 `+= 1`: [ok, v]; on overflow a checked build panics, an unchecked one wraps
IncU16(v, checks) ==
    IF v + 1 < U16 THEN [ok |-> TRUE, v |-> v + 1]
    ELSE IF checks THEN [ok |-> FALSE, v |-> v]
    ELSE [ok |-> TRUE, v |-> 0]

\* u16 `a - b`: [ok, v]; on underflow a checked build panics, an unchecked one wraps
SubU16(a, b, checks) ==
    IF a >= b THEN [ok |-> TRUE, v |-> a - b]
    ELSE IF checks THEN [ok |-> FALSE, v |-> a]
    ELSE [ok |-> TRUE, v |-> a - b + U16]

----------------------------------------------------------------------------
(* EditorBuffer.                                                           *)

\* EditorBuffer::new: one empty row
NewBuffer == << << >> >>

\* A line of str::lines loses the CR that precedes its LF.
StripCR(line) ==
    IF line # << >> /\ line[Len(line)] = CR THEN SubSeq(line, 1, Len(line) - 1)
    ELSE line

RECURSIVE LinesFrom(_, _)
\* str::lines: the lines of text after the line begun as cur; a final empty
\* line is not a line
LinesFrom(text, cur) ==
    IF text = << >> THEN (IF cur = << >> THEN << >> ELSE <<cur>>)
    ELSE IF Head(text) = LF THEN <<StripCR(cur)>> \o LinesFrom(Tail(text), << >>)
    ELSE LinesFrom(Tail(text), Append(cur, Head(text)))

\* EditorBuffer::open on a readable file: one row per line, at least one row
OpenRows(content) ==
    LET ls == LinesFrom(content, << >>)
    IN  IF ls = << >> THEN NewBuffer ELSE ls

RECURSIVE RowsToString(_)
\* EditorBuffer::rows_to_string: the rows joined by "\n"
RowsToString(rs) ==
    IF Len(rs) = 0 THEN << >>
    ELSE IF Len(rs) = 1 THEN rs[1]
    ELSE rs[1] \o <<LF>> \o RowsToString(Tail(rs))

RECURSIVE DocBytes(_)
\* The bytes held by all rows together (what the model's growth bound caps).
DocBytes(rs) == IF rs = << >> THEN 0 ELSE ByteLen(Head(rs)) + DocBytes(Tail(rs))

----------------------------------------------------------------------------
(* EditorConfig: cursor and editing.  Each operation yields [ok, rows, cx, *)
(* cy]; ok = FALSE is a panic.  Row y of the code is rs[y + 1].            *)

Edited(rs, x, y) == [ok |-> TRUE, rows |-> rs, cx |-> x, cy |-> y]
Aborted(rs, x, y) == [ok |-> FALSE, rows |-> rs, cx |-> x, cy |-> y]

\* A move_cursor that leaves the column where it was.
clamp_cx_unclamped(rs, x, y) == x

\* EditorConfig::move_cursor, its last two lines: the column, brought back into row y
clamp_cx(rs, x, y) ==
    LET cur_row_len == AsU16(ByteLen(rs[y + 1]))
    IN  IF x > cur_row_len THEN cur_row_len ELSE x

\* A move_cursor whose h at column 0 goes to the end of the row above.
move_cursor_h_wraps(rs, x, y, key, checks) ==
    LET row_count == Len(rs)
        moved ==
            IF key = KEY_h THEN
                (IF x > 0 THEN Edited(rs, x - 1, y)
                 ELSE IF y > 0 THEN Edited(rs, AsU16(ByteLen(rs[y])), y - 1)
                 ELSE Edited(rs, x, y))
            ELSE IF key = KEY_j THEN
                (IF y < row_count - 1
                 THEN LET n == IncU16(y, checks)
                      IN  IF n.ok THEN Edited(rs, x, n.v) ELSE Aborted(rs, x, y)
                 ELSE Edited(rs, x, y))
            ELSE IF key = KEY_k THEN
                (IF y > 0 THEN Edited(rs, x, y - 1) ELSE Edited(rs, x, y))
            ELSE IF key = KEY_l THEN
                (IF x < AsU16(ByteLen(rs[y + 1]))
                 THEN LET n == IncU16(x, checks)
                      IN  IF n.ok THEN Edited(rs, n.v, y) ELSE Aborted(rs, x, y)
                 ELSE Edited(rs, x, y))
            ELSE Edited(rs, x, y)
    IN  IF ~moved.ok THEN moved
        ELSE Edited(rs, clamp_cx(rs, moved.cx, moved.cy), moved.cy)

\* EditorConfig::move_cursor
move_cursor(rs, x, y, key, checks) ==
    LET row_count == Len(rs)
        moved ==
            IF key = KEY_h THEN
                (IF x > 0 THEN Edited(rs, x - 1, y) ELSE Edited(rs, x, y))
            ELSE IF key = KEY_j THEN
                (IF y < row_count - 1
                 THEN LET n == IncU16(y, checks)
                      IN  IF n.ok THEN Edited(rs, x, n.v) ELSE Aborted(rs, x, y)
                 ELSE Edited(rs, x, y))
            ELSE IF key = KEY_k THEN
                (IF y > 0 THEN Edited(rs, x, y - 1) ELSE Edited(rs, x, y))
            ELSE IF key = KEY_l THEN
                (IF x < AsU16(ByteLen(rs[y + 1]))
                 THEN LET n == IncU16(x, checks)
                      IN  IF n.ok THEN Edited(rs, n.v, y) ELSE Aborted(rs, x, y)
                 ELSE Edited(rs, x, y))
            ELSE Edited(rs, x, y)
    IN  IF ~moved.ok THEN moved
        ELSE Edited(rs, clamp_cx(rs, moved.cx, moved.cy), moved.cy)

\* EditorConfig::insert_char
insert_char(rs, x, y, c, checks) ==
    LET r == RowInsertChar(rs[y + 1], x, c)
        n == IncU16(x, checks)
    IN  IF ~r.ok THEN Aborted(rs, x, y)
        ELSE IF ~n.ok THEN Aborted(rs, x, y)
        ELSE Edited([rs EXCEPT ![y + 1] = r.content], n.v, y)

\* rows.remove(i), i counted from 0
RemoveRow(rs, i) == SubSeq(rs, 1, i) \o SubSeq(rs, i + 2, Len(rs))

\* rows.insert(i, row), i counted from 0
InsertRow(rs, i, row) == SubSeq(rs, 1, i) \o <<row>> \o SubSeq(rs, i + 1, Len(rs))

\* A delete_char without the guard of the document start: at row 0, column 0
\* it removes the row.
delete_char_unguarded(rs, x, y) ==
    IF x > 0 THEN
        LET r == RowDeleteChar(rs[y + 1], x - 1)
        IN  IF ~r.ok THEN Aborted(rs, x, y)
            ELSE Edited([rs EXCEPT ![y + 1] = r.content], x - 1, y)
    ELSE IF y = 0 THEN Edited(RemoveRow(rs, 0), 0, 0)
    ELSE
        LET current_row_content == rs[y + 1]
            removed == RemoveRow(rs, y)
            prev == removed[y]
        IN  Edited([removed EXCEPT ![y] = prev \o current_row_content],
                   AsU16(ByteLen(prev)), y - 1)

\* A delete_char whose join reads the length of the previous row after the push.
delete_char_cx_after_push(rs, x, y) ==
    IF x = 0 /\ y = 0 THEN Edited(rs, x, y)
    ELSE IF x > 0 THEN
        LET r == RowDeleteChar(rs[y + 1], x - 1)
        IN  IF ~r.ok THEN Aborted(rs, x, y)
            ELSE Edited([rs EXCEPT ![y + 1] = r.content], x - 1, y)
    ELSE
        LET removed == RemoveRow(rs, y)
            joined == removed[y] \o rs[y + 1]
        IN  Edited([removed EXCEPT ![y] = joined], AsU16(ByteLen(joined)), y - 1)

\* EditorConfig::delete_char
delete_char(rs, x, y) ==
    IF x = 0 /\ y = 0 THEN Edited(rs, x, y)
    ELSE IF x > 0 THEN
        LET r == RowDeleteChar(rs[y + 1], x - 1)
        IN  IF ~r.ok THEN Aborted(rs, x, y)
            ELSE Edited([rs EXCEPT ![y + 1] = r.content], x - 1, y)
    ELSE
        LET current_row_content == rs[y + 1]
            removed == RemoveRow(rs, y)
            prev == removed[y]
        IN  Edited([removed EXCEPT ![y] = prev \o current_row_content],
                   AsU16(ByteLen(prev)), y - 1)

\* EditorConfig::handle_keypress, Mode::Insert, '\r' | '\n'
split_line(rs, x, y, checks) ==
    LET s == StringSplitOff(rs[y + 1], x)
        n == IncU16(y, checks)
    IN  IF ~s.ok THEN Aborted(rs, x, y)
        ELSE IF ~n.ok THEN Aborted(rs, x, y)
        ELSE Edited(InsertRow([rs EXCEPT ![y + 1] = s.head], y + 1, s.tail), 0, n.v)

----------------------------------------------------------------------------
(* Status messages: [kind, text].  text is the command of "Unknown: {}",   *)
(* the path of "Opened: {}", "New file: {}" and "Saved to {}".             *)

\* A status message that leaves out the text it was given.
Status_without_text(kind, text) == [kind |-> kind, text |-> << >>]

Status(kind, text) == [kind |-> kind, text |-> text]

\* "out.txt"
OutTxt == <<111, 117, 116, 46, 116, 120, 116>>

----------------------------------------------------------------------------
(* Saving.  The file system decides an attempt: whether File::create       *)
(* succeeds and how many characters write_all gets out before an error     *)
(* (all of them: no error).                                                *)

SaveOutcomes(text) ==
    {[create |-> FALSE, written |-> 0]}
        \cup {[create |-> TRUE, written |-> n] : n \in 0..Len(text)}

\* A save that ends the text with a newline.
save_trailing_newline(fname, rs, status, dsk, outcome) ==
    IF fname = << >> THEN
        [ok |-> TRUE, status_msg |-> Status("NoFileName", << >>), disk |-> dsk,
         attempts |-> << >>]
    ELSE
        LET content == RowsToString(rs) \o <<LF>>
        IN  IF ~outcome.create THEN
                [ok |-> FALSE, status_msg |-> status, disk |-> dsk,
                 attempts |-> <<content>>]
            ELSE IF outcome.written < Len(content) THEN
                [ok |-> FALSE, status_msg |-> status,
                 disk |-> [exists |-> TRUE, text |-> SubSeq(content, 1, outcome.written)],
                 attempts |-> <<content>>]
            ELSE
                [ok |-> TRUE, status_msg |-> Status("SavedTo", fname[1]),
                 disk |-> [exists |-> TRUE, text |-> content],
                 attempts |-> <<content>>]

\* EditorConfig::save: [ok, status_msg, disk, attempts]; ok is Result::is_ok
save(fname, rs, status, dsk, outcome) ==
    IF fname = << >> THEN
        [ok |-> TRUE, status_msg |-> Status("NoFileName", << >>), disk |-> dsk,
         attempts |-> << >>]
    ELSE
        LET content == RowsToString(rs)
        IN  IF ~outcome.create THEN
                [ok |-> FALSE, status_msg |-> status, disk |-> dsk,
                 attempts |-> <<content>>]
            ELSE IF outcome.written < Len(content) THEN
                [ok |-> FALSE, status_msg |-> status,
                 disk |-> [exists |-> TRUE, text |-> SubSeq(content, 1, outcome.written)],
                 attempts |-> <<content>>]
            ELSE
                [ok |-> TRUE, status_msg |-> Status("SavedTo", fname[1]),
                 disk |-> [exists |-> TRUE, text |-> content],
                 attempts |-> <<content>>]

\* An execute_command in which "wq" saves and does not stop.
should_continue_wq_stays(cmd) == cmd # <<KEY_q>>

\* EditorConfig::execute_command, should_continue: FALSE for "q" and "wq" only
should_continue(cmd) == cmd \notin {<<KEY_q>>, <<KEY_w, KEY_q>>}

\* EditorConfig::execute_command: the command buffer, as it stands, is the command
execute_command(c, outcome) ==
    LET cmd == c.command_buffer
        saved == save(c.filename, c.rows, c.status_msg, c.disk, outcome)
        after ==
            IF cmd = <<KEY_w>> THEN
                [c EXCEPT !.disk = saved.disk, !.save_attempts = saved.attempts,
                          !.status_msg = IF saved.ok THEN Status("SavedOutput", << >>)
                                         ELSE Status("Error", << >>)]
            ELSE IF cmd = <<KEY_q>> THEN c
            ELSE IF cmd = <<KEY_w, KEY_q>> THEN
                [c EXCEPT !.disk = saved.disk, !.save_attempts = saved.attempts,
                          !.status_msg = saved.status_msg]
            ELSE [c EXCEPT !.status_msg = Status("Unknown", cmd)]
    IN  [after EXCEPT !.mode = "Normal", !.command_buffer = << >>,
                      !.continue = should_continue(cmd)]

\* The cursor and rows of an editing operation's result, or its panic.
Apply(c, r) ==
    IF r.ok THEN [c EXCEPT !.rows = r.rows, !.cx = r.cx, !.cy = r.cy]
    ELSE [c EXCEPT !.ok = FALSE]

\* EditorConfig::handle_keypress, Mode::Normal
handle_normal(c, key) ==
    IF key = KEY_i THEN [c EXCEPT !.mode = "Insert"]
    ELSE IF key = COLON THEN [c EXCEPT !.mode = "Command", !.command_buffer = << >>]
    ELSE IF key \in {KEY_h, KEY_j, KEY_k, KEY_l} THEN
        Apply(c, move_cursor(c.rows, c.cx, c.cy, key, c.checks))
    ELSE c

\* EditorConfig::handle_keypress, Mode::Insert
handle_insert(c, key) ==
    IF key = ESC THEN [c EXCEPT !.mode = "Normal"]
    ELSE IF key \in {CR, LF} THEN Apply(c, split_line(c.rows, c.cx, c.cy, c.checks))
    ELSE IF key \in {DEL, BS} THEN Apply(c, delete_char(c.rows, c.cx, c.cy))
    ELSE IF ~IsControl(key) THEN Apply(c, insert_char(c.rows, c.cx, c.cy, key, c.checks))
    ELSE c

\* String::pop
StringPop(s) == IF s = << >> THEN s ELSE SubSeq(s, 1, Len(s) - 1)

\* A Command mode whose printable keys are typed into the document as well.
handle_command_typing(c, key, outcome) ==
    IF key = ESC THEN [c EXCEPT !.mode = "Normal"]
    ELSE IF key \in {CR, LF} THEN execute_command(c, outcome)
    ELSE IF key \in {DEL, BS} THEN [c EXCEPT !.command_buffer = StringPop(@)]
    ELSE IF ~IsControl(key) THEN
        Apply([c EXCEPT !.command_buffer = StringPush(@, key)],
              insert_char(c.rows, c.cx, c.cy, key, c.checks))
    ELSE c

\* EditorConfig::handle_keypress, Mode::Command
handle_command(c, key, outcome) ==
    IF key = ESC THEN [c EXCEPT !.mode = "Normal"]
    ELSE IF key \in {CR, LF} THEN execute_command(c, outcome)
    ELSE IF key \in {DEL, BS} THEN [c EXCEPT !.command_buffer = StringPop(@)]
    ELSE IF ~IsControl(key) THEN [c EXCEPT !.command_buffer = StringPush(@, key)]
    ELSE c

\* EditorConfig::handle_keypress on the editor c: the editor after the key, with
\* continue (the value returned) and ok (FALSE: the call panicked)
handle_keypress(c, key, outcome) ==
    LET start == [c EXCEPT !.continue = TRUE, !.ok = TRUE, !.save_attempts = << >>]
    IN  IF c.mode = "Normal" THEN handle_normal(start, key)
        ELSE IF c.mode = "Insert" THEN handle_insert(start, key)
        ELSE handle_command(start, key, outcome)

\* A scroll that, scrolling down, stops one row short.
scroll_short(y, offset, srows, checks) ==
    LET v == SubU16(srows, 1, checks)
        visible_rows == v.v
        up == IF y < offset THEN y ELSE offset
    IN  IF ~v.ok THEN [ok |-> FALSE, row_offset |-> offset]
        ELSE IF y >= up + visible_rows
             THEN [ok |-> TRUE, row_offset |-> y - visible_rows]
             ELSE [ok |-> TRUE, row_offset |-> up]

\* EditorConfig::scroll: [ok, row_offset]
scroll(y, offset, srows, checks) ==
    LET v == SubU16(srows, 1, checks)
        visible_rows == v.v
        up == IF y < offset THEN y ELSE offset
    IN  IF ~v.ok THEN [ok |-> FALSE, row_offset |-> offset]
        ELSE IF y >= up + visible_rows
             THEN [ok |-> TRUE, row_offset |-> y - visible_rows + 1]
             ELSE [ok |-> TRUE, row_offset |-> up]

\* draw_screen: FALSE is a panic of String::truncate, which cuts a row longer
\* than the terminal is wide and must cut it at a char boundary
draw_screen(rs, offset, srows, cols, checks) ==
    LET visible_rows == SubU16(srows, 1, checks).v
    IN  \A i \in 1..Len(rs) :
            (i - 1 >= offset /\ i - 1 < offset + visible_rows /\ cols <= ByteLen(rs[i]))
                => IsCharBoundary(rs[i], cols)

\* refresh_screen: scroll, draw_screen, then the cursor row of the screen;
\* [ok, row_offset, screen_y]
refresh_screen(rs, y, offset, srows, cols, checks) ==
    LET s == scroll(y, offset, srows, checks)
        sy == SubU16(y, AsU16(s.row_offset), checks)
    IN  IF ~s.ok THEN [ok |-> FALSE, row_offset |-> offset, screen_y |-> 0]
        ELSE IF ~draw_screen(rs, s.row_offset, srows, cols, checks)
             THEN [ok |-> FALSE, row_offset |-> s.row_offset, screen_y |-> 0]
        ELSE IF ~sy.ok THEN [ok |-> FALSE, row_offset |-> s.row_offset, screen_y |-> 0]
        ELSE [ok |-> TRUE, row_offset |-> s.row_offset, screen_y |-> sy.v]

RECURSIVE Digits(_)
\* The number of characters of `{}` applied to a u16.
Digits(n) == IF n < 10 THEN 1 ELSE 1 + Digits(n \div 10)

\* The number of characters of a status message.
StatusChars(status) ==
    CASE status.kind = "Welcome" -> 19
      [] status.kind = "Opened" -> 8 + Len(status.text)
      [] status.kind = "NewFile" -> 10 + Len(status.text)
      [] status.kind = "NoFileName" -> 37
      [] status.kind = "SavedTo" -> 9 + Len(status.text)
      [] status.kind = "SavedOutput" -> 19
      [] status.kind = "Error" -> 7 + Len(status.text)
      [] status.kind = "Unknown" -> 9 + Len(status.text)

\* draw_status_bar: the number of characters of the status line it prints.
\* `{:width$}` pads a shorter text with blanks and prints a longer one whole.
draw_status_bar(m, x, y, status, cmd, cols) ==
    IF m = "Command" THEN 1 + Len(cmd)
    ELSE LET mode_str == 12
             text == mode_str + 8 + Digits(x) + 1 + Digits(y) + 3 + StatusChars(status)
         IN  IF text < cols THEN cols ELSE text

----------------------------------------------------------------------------
(* Sessions: what main is started with.  A session fixes the argument, the *)
(* terminal height, the build and the bytes its input stream delivers.     *)

\* h j k l, i, ESC, CR/LF, DEL/BS, a two-byte printable, a control character
EditKeys == {KEY_h, KEY_j, KEY_k, KEY_l, KEY_i, ESC, CR, LF, DEL, BS, E_ACUTE, NEL}

\* ':', the letters of the commands, a blank, ESC, CR/LF, DEL/BS, a control character
CmdKeys == {COLON, KEY_w, KEY_q, SPACE, ESC, CR, LF, DEL, BS, NEL}

\* cursor movement only
ViewKeys == {KEY_h, KEY_j, KEY_k, KEY_l}

NoArg == [given |-> FALSE, found |-> FALSE, content |-> << >>]
MissingFile == [given |-> TRUE, found |-> FALSE, content |-> << >>]
File(content) == [given |-> TRUE, found |-> TRUE, content |-> content]

\* A text of n lines of FileLineLen characters each.
LinesFile(n) == RowsToString([i \in 1..n |-> [j \in 1..FileLineLen |-> KEY_h]])

Session(keys, arg, cols, srows, checks) ==
    [keys |-> keys, arg |-> arg, screen_cols |-> cols, screen_rows |-> srows,
     checks |-> checks]

EditSessions ==
    {Session(EditKeys, arg, FallbackCols, FallbackRows, TRUE) : arg \in {NoArg, File(<< >>)}}

CmdSessions ==
    {Session(CmdKeys, arg, FallbackCols, FallbackRows, TRUE) :
        arg \in {NoArg, MissingFile, File(<<KEY_h, KEY_i>>)}}

ViewSessions ==
    {Session(ViewKeys, File(LinesFile(s[1])), MaxScreenCols, s[2], s[3]) :
        s \in (1..MaxFileLines) \X (0..MaxScreenRows) \X BOOLEAN}

Sessions == EditSessions \cup CmdSessions \cup ViewSessions

\* No Row is under test while the editor runs.
NoRowTest == [step |-> "none", line |-> << >>, at |-> 0, c |-> NUL, content |-> << >>]

\* main, up to the event loop: EditorConfig::new, then the argument
Start(s) ==
        /\ keyboard = s.keys
        /\ overflow_checks = s.checks
        /\ screen_rows = s.screen_rows
        /\ screen_cols = s.screen_cols
        /\ rows = IF s.arg.given /\ s.arg.found THEN OpenRows(s.arg.content)
                  ELSE NewBuffer
        /\ filename = IF s.arg.given THEN <<OutTxt>> ELSE << >>
        /\ status_msg = IF ~s.arg.given THEN Status("Welcome", << >>)
                        ELSE IF s.arg.found THEN Status("Opened", OutTxt)
                        ELSE Status("NewFile", OutTxt)
        /\ disk = [exists |-> s.arg.given /\ s.arg.found, text |-> s.arg.content]
        /\ cx = 0
        /\ cy = 0
        /\ row_offset = 0
        /\ mode = "Normal"
        /\ command_buffer = << >>
        /\ save_attempts = << >>
        /\ screen_y = 0
        /\ buf = NUL
        /\ pc = "refresh"

\* No key script is under test while the editor runs on its keyboard.
NoScript == [rows |-> << >>, cx |-> 0, cy |-> 0, played |-> << >>, todo |-> << >>]

Init == row_test = NoRowTest /\ script_test = NoScript /\ \E s \in Sessions : Start(s)

----------------------------------------------------------------------------
(* main's event loop.                                                      *)

Max(a, b) == IF a >= b THEN a ELSE b

\* The EditorConfig of the current state.
Editor ==
    [rows |-> rows, cx |-> cx, cy |-> cy, mode |-> mode,
     command_buffer |-> command_buffer, status_msg |-> status_msg,
     filename |-> filename, disk |-> disk, save_attempts |-> save_attempts,
     checks |-> overflow_checks, continue |-> TRUE, ok |-> TRUE]

\* The model follows the editor while its texts stay within the bounds.
WithinBounds(c) ==
    /\ DocBytes(c.rows) <= Max(MaxBytes, DocBytes(rows))
    /\ Len(c.rows) <= Max(MaxRows, Len(rows))
    /\ Len(c.command_buffer) <= MaxCmd

\* The file system has a say only when the key executes a command.
OutcomesOf(key) ==
    IF mode = "Command" /\ key \in {CR, LF} THEN SaveOutcomes(RowsToString(rows))
    ELSE {[create |-> TRUE, written |-> 0]}

\* main: handle_keypress(c) on the byte read, then break or loop
Dispatch(key) ==
    \E outcome \in OutcomesOf(key) :
        LET c == handle_keypress(Editor, key, outcome)
        IN  IF ~c.ok THEN
                /\ pc' = "panicked"
                /\ UNCHANGED <<rows, cx, cy, mode, command_buffer, status_msg, disk,
                               save_attempts>>
            ELSE
                /\ WithinBounds(c)
                /\ rows' = c.rows
                /\ cx' = c.cx
                /\ cy' = c.cy
                /\ mode' = c.mode
                /\ command_buffer' = c.command_buffer
                /\ status_msg' = c.status_msg
                /\ disk' = c.disk
                /\ save_attempts' = c.save_attempts
                /\ pc' = IF c.continue THEN "refresh" ELSE "exited"

\* main: refresh_screen at the top of the loop, then `let mut buf = [0; 1]`
Refresh ==
    /\ pc = "refresh"
    /\ buf' = NUL
    /\ LET r == refresh_screen(rows, cy, row_offset, screen_rows, screen_cols,
                                 overflow_checks)
       IN  IF r.ok THEN
               /\ row_offset' = r.row_offset
               /\ screen_y' = r.screen_y
               /\ pc' = "read"
           ELSE
               /\ row_offset' = r.row_offset
               /\ screen_y' = screen_y
               /\ pc' = "panicked"
    /\ UNCHANGED <<rows, cx, cy, screen_rows, mode, command_buffer, status_msg,
                   filename, disk, save_attempts, overflow_checks, keyboard,
                   row_test, screen_cols, script_test>>

\* main: read returns Ok(1) with a byte of the keyboard
ReadKey(key) ==
    /\ pc = "read"
    /\ buf' = key
    /\ Dispatch(key)
    /\ UNCHANGED <<screen_rows, row_offset, filename, screen_y, overflow_checks,
                   keyboard, row_test, screen_cols, script_test>>

\* main: read returns Ok(0) at end of input; buf[0] is still 0
ReadEof ==
    /\ pc = "read"
    /\ buf' = NUL
    /\ Dispatch(NUL)
    /\ UNCHANGED <<screen_rows, row_offset, filename, screen_y, overflow_checks,
                   keyboard, row_test, screen_cols, script_test>>

\* main: read returns Err; the body of the `if` is skipped
ReadErr ==
    /\ pc = "read"
    /\ pc' = "refresh"
    /\ UNCHANGED <<rows, cx, cy, screen_rows, row_offset, mode, command_buffer,
                   status_msg, filename, disk, save_attempts, screen_y, buf,
                   overflow_checks, keyboard, row_test, screen_cols, script_test>>

Next ==
    \/ Refresh
    \/ \E key \in keyboard : ReadKey(key)
    \/ ReadEof
    \/ ReadErr

Spec == Init /\ [][Next]_vars

----------------------------------------------------------------------------
(* Rows on their own: Row::insert_char(at, c), then Row::delete_char(at),  *)
(* on lines of one-byte and two-byte characters, at positions within and   *)
(* beyond the line.                                                        *)

RECURSIVE LinesUpTo(_)
\* The lines of up to n characters drawn from 'h' and U+00E9.
LinesUpTo(n) ==
    IF n = 0 THEN {<< >>}
    ELSE LET shorter == LinesUpTo(n - 1)
         IN  shorter \cup {Append(l, ch) : l \in shorter, ch \in {KEY_h, E_ACUTE}}

InitRow ==
    /\ Start(Session(EditKeys, NoArg, FallbackCols, FallbackRows, TRUE))
    /\ script_test = NoScript
    /\ \E line \in LinesUpTo(MaxLineChars), at \in 0..(2 * MaxLineChars + 2),
          c \in {KEY_i, E_ACUTE} :
           row_test = [step |-> "start", line |-> line, at |-> at, c |-> c,
                       content |-> line]

EditorUnchanged ==
    UNCHANGED <<rows, cx, cy, screen_rows, row_offset, mode, command_buffer,
                status_msg, filename, disk, save_attempts, screen_y, buf, pc,
                overflow_checks, keyboard, screen_cols, script_test>>

\* Row::insert_char on the row under test
RowInsert ==
    /\ row_test.step = "start"
    /\ LET r == RowInsertChar(row_test.content, row_test.at, row_test.c)
       IN  row_test' = [row_test EXCEPT !.content = r.content,
                                        !.step = IF r.ok THEN "inserted" ELSE "panicked"]
    /\ EditorUnchanged

\* Row::delete_char on the row under test, at the same position
RowDelete ==
    /\ row_test.step = "inserted"
    /\ LET r == RowDeleteChar(row_test.content, row_test.at)
       IN  row_test' = [row_test EXCEPT !.content = r.content,
                                        !.step = IF r.ok THEN "deleted" ELSE "panicked"]
    /\ EditorUnchanged

NextRow == RowInsert \/ RowDelete

SpecRow == InitRow /\ [][NextRow]_vars

----------------------------------------------------------------------------
(* Key scripts: the event loop fed a fixed sequence of keys, from any      *)
(* document of a few short rows and any cursor of it.  The rows, the       *)
(* cursor and the keys played so far are kept for comparison.              *)

\* The rows a scripted document is made of: empty, one-byte characters, a
\* two-byte character.
ScriptLines == {<< >>, <<KEY_h, KEY_i>>, <<KEY_j, KEY_k>>, <<E_ACUTE>>}

\* The documents of up to n rows.
ScriptDocs(n) == UNION {[1..k -> ScriptLines] : k \in 1..n}

\* i h i ESC : w q CR
QuitScript == <<KEY_i, KEY_h, KEY_i, ESC, COLON, KEY_w, KEY_q, CR>>

\* Scripts for Insert mode: a split then a join, or a backspace alone.
InsertScripts ==
    {<<s, j>> : s \in {CR, LF}, j \in {DEL, BS}} \cup {<<DEL>>, <<BS>>}

\* Scripts for Normal mode: type "hi", save and quit; or save and quit at once.
NormalScripts == {QuitScript, <<COLON, KEY_w, KEY_q, CR>>}

\* main was started on a file name that did not exist; the document and the
\* cursor are as keys have since made them, and the script is about to be read.
InitScript ==
    /\ row_test = NoRowTest
    /\ keyboard = {KEY_i, KEY_h, ESC, COLON, KEY_w, KEY_q, CR, LF, DEL, BS}
    /\ overflow_checks = TRUE
    /\ screen_rows = FallbackRows
    /\ screen_cols = FallbackCols
    /\ filename = <<OutTxt>>
    /\ status_msg = Status("NewFile", OutTxt)
    /\ disk = [exists |-> FALSE, text |-> << >>]
    /\ row_offset = 0
    /\ command_buffer = << >>
    /\ save_attempts = << >>
    /\ screen_y = 0
    /\ buf = NUL
    /\ pc = "refresh"
    /\ \E doc \in ScriptDocs(MaxScriptRows) :
        \E y \in 0..(Len(doc) - 1) :
            \E x \in 0..ByteLen(doc[y + 1]) :
                \E m \in {"Normal", "Insert"} :
                    \E script \in (IF m = "Insert" THEN InsertScripts ELSE NormalScripts) :
                        /\ rows = doc
                        /\ cx = x
                        /\ cy = y
                        /\ mode = m
                        /\ script_test = [rows |-> doc, cx |-> x, cy |-> y,
                                          played |-> << >>, todo |-> script]

\* main: handle_keypress(c) on the byte read, then break or loop; the document
\* grows as the keys make it grow
Handle(key) ==
    \E outcome \in OutcomesOf(key) :
        LET c == handle_keypress(Editor, key, outcome)
        IN  IF ~c.ok THEN
                /\ pc' = "panicked"
                /\ UNCHANGED <<rows, cx, cy, mode, command_buffer, status_msg, disk,
                               save_attempts>>
            ELSE
                /\ rows' = c.rows
                /\ cx' = c.cx
                /\ cy' = c.cy
                /\ mode' = c.mode
                /\ command_buffer' = c.command_buffer
                /\ status_msg' = c.status_msg
                /\ disk' = c.disk
                /\ save_attempts' = c.save_attempts
                /\ pc' = IF c.continue THEN "refresh" ELSE "exited"

\* main: read returns Ok(1) with the next byte of the script
PlayKey ==
    /\ pc = "read"
    /\ script_test.todo # << >>
    /\ buf' = Head(script_test.todo)
    /\ Handle(Head(script_test.todo))
    /\ script_test' = [script_test EXCEPT
                          !.played = Append(script_test.played, Head(script_test.todo)),
                          !.todo = Tail(script_test.todo)]
    /\ UNCHANGED <<screen_rows, screen_cols, row_offset, filename, screen_y,
                   overflow_checks, keyboard, row_test>>

NextScript == Refresh \/ PlayKey

SpecScript == InitScript /\ [][NextScript]_vars

----------------------------------------------------------------------------
(* The claims.                                                             *)

\* The step handles the byte key: it was read and dispatched to handle_keypress.
Handled(key) == pc = "read" /\ pc' # "read" /\ buf' = key

\* C1: after every key, in every mode, the cursor is on a row of the document
\* and within its line: 0 <= cy < lineCount and 0 <= cx <= length(line[cy]).
C1_CursorInvariant ==
    /\ 0 <= cy
    /\ cy < Len(rows)
    /\ 0 <= cx
    /\ cx <= ByteLen(rows[cy + 1])

\* C1: a j has moved the cursor from a longer row onto the end of a shorter one.
C1_Witness ==
    /\ pc = "refresh"
    /\ buf = KEY_j
    /\ cy = 1
    /\ ByteLen(rows[1]) > ByteLen(rows[2])
    /\ cx = ByteLen(rows[2])

\* C2: the line store holds at least one line in every reachable state, and a
\* backspace in Insert mode at row 0, column 0 removes no line.
C2_AtLeastOneLine ==
    /\ [](Len(rows) >= 1)
    /\ [][((Handled(DEL) \/ Handled(BS)) /\ mode = "Insert" /\ cx = 0 /\ cy = 0)
              => rows' = rows]_vars

\* C2: a backspace was handled in Insert mode and left the one empty line of the
\* document, with the cursor at its start.
C2_Witness ==
    /\ pc = "refresh"
    /\ buf \in {DEL, BS}
    /\ mode = "Insert"
    /\ rows = NewBuffer
    /\ cx = 0
    /\ cy = 0

\* C3: on a terminal of two rows or more, once refresh_screen has run scroll the
\* cursor row is within the body rows: rowOffset <= cy <= rowOffset + (screenRows
\* - 1) - 1, and the cursor row of the screen is cy - rowOffset.
C3_Viewport ==
    (pc = "read" /\ screen_rows >= 2) =>
        /\ row_offset <= cy
        /\ cy <= row_offset + (screen_rows - 1) - 1
        /\ screen_y = cy - row_offset

\* C3: scroll has moved the window down: the cursor is on the last body row of a
\* window that does not start at row 0.
C3_Witness ==
    /\ pc = "read"
    /\ screen_rows >= 3
    /\ row_offset > 0
    /\ cy = row_offset + (screen_rows - 1) - 1

\* C4: a terminal of 0 rows or 1 row is treated as one body row: nothing
\* underflows (no panic, no wrapped value) and after scroll rowOffset <= cy <
\* rowOffset + 1, the cursor on screen row 0.
C4_DegenerateHeight ==
    screen_rows <= 1 =>
        /\ pc # "panicked"
        /\ pc = "read" => (row_offset <= cy /\ cy < row_offset + 1 /\ screen_y = 0)

\* C5: the command buffer is empty whenever the mode is Normal or Insert (ESC in
\* Command mode clears it).
C5_CommandBufferEmpty == mode \in {"Normal", "Insert"} => command_buffer = << >>

\* C6: handle_keypress returns the stop signal exactly when the mode is Command,
\* the key is CR or LF and the command buffer is q or wq; every other key, in
\* every mode, lets the loop go on.
C6_OnlyCommandStops ==
    [][pc' = "exited" <=>
           /\ (Handled(CR) \/ Handled(LF))
           /\ mode = "Command"
           /\ command_buffer \in {<<KEY_q>>, <<KEY_w, KEY_q>>}]_vars

\* C6: the loop has stopped on the CR that executed a command.
C6_Witness == pc = "exited" /\ buf = CR /\ mode = "Normal"

RECURSIVE TrimStart(_)
\* str::trim_start, for the blank
TrimStart(s) == IF s # << >> /\ Head(s) = SPACE THEN TrimStart(Tail(s)) ELSE s

RECURSIVE TrimEnd(_)
\* str::trim_end, for the blank
TrimEnd(s) ==
    IF s # << >> /\ s[Len(s)] = SPACE THEN TrimEnd(SubSeq(s, 1, Len(s) - 1)) ELSE s

Trim(s) == TrimEnd(TrimStart(s))

\* C7: the command is the trimmed command buffer: a buffer that is w, q or wq
\* once its leading and trailing blanks are removed is never reported unknown.
C7_TrimmedCommand ==
    status_msg.kind = "Unknown" =>
        Trim(status_msg.text) \notin {<<KEY_w>>, <<KEY_q>>, <<KEY_w, KEY_q>>}

\* C8: with no filename, executing w leaves the status message saying that there
\* is no file name, writes nothing, and the loop goes on.
C8_SaveWithoutFilename ==
    [][((Handled(CR) \/ Handled(LF)) /\ mode = "Command" /\ filename = << >>
            /\ command_buffer = <<KEY_w>>)
          => /\ status_msg'.kind = "NoFileName"
             /\ disk' = disk
             /\ save_attempts' = << >>
             /\ pc' = "refresh"]_vars

\* C9: a read that fails, or that finds the input closed, ends the loop.
C9_ClosedInputEndsLoop == [][(ReadErr \/ ReadEof) => pc' = "exited"]_vars

SplitThenJoin == {<<s, j>> : s \in {CR, LF}, j \in {DEL, BS}}

\* C11: in Insert mode, from any document and any cursor within its line, CR or
\* LF followed at once by a backspace is carried out and leaves the line store
\* and the cursor as they were before the two keys.
C11_SplitJoinRoundTrip ==
    /\ (script_test.played \in {<<CR>>, <<LF>>}) => pc # "panicked"
    /\ (script_test.played \in SplitThenJoin) =>
            /\ rows = script_test.rows
            /\ cx = script_test.cx
            /\ cy = script_test.cy

\* Whenever the split and the backspace were both handled, the line store and
\* the cursor are as they were.
SplitJoinRestoresWhenHandled ==
    (script_test.played \in SplitThenJoin /\ pc # "panicked") =>
        /\ rows = script_test.rows
        /\ cx = script_test.cx
        /\ cy = script_test.cy

\* C12: a backspace in Insert mode at column 0 of a row cy > 0 removes row cy,
\* makes row cy - 1 its old content followed by the removed row, leaves every
\* other row as it was and in order, and puts the cursor on row cy - 1 at the
\* old length of that row.
C12_BackspaceJoin ==
    [][((Handled(DEL) \/ Handled(BS)) /\ mode = "Insert" /\ cx = 0 /\ cy > 0)
          => /\ Len(rows') = Len(rows) - 1
             /\ rows'[cy] = rows[cy] \o rows[cy + 1]
             /\ \A i \in 1..(cy - 1) : rows'[i] = rows[i]
             /\ \A i \in (cy + 1)..Len(rows') : rows'[i] = rows[i + 1]
             /\ cy' = cy - 1
             /\ cx' = ByteLen(rows[cy])
             /\ pc' = "refresh"]_vars

\* C12: with rows "hi" and "jk" and the cursor at (0, 1), a backspace has made
\* the one row "hijk" with the cursor at (2, 0).
C12_Witness ==
    /\ script_test.rows = <<(<<KEY_h, KEY_i>>), (<<KEY_j, KEY_k>>)>>
    /\ script_test.cx = 0
    /\ script_test.cy = 1
    /\ script_test.played = <<DEL>>
    /\ rows = << <<KEY_h, KEY_i, KEY_j, KEY_k>> >>
    /\ cx = 2
    /\ cy = 0

\* C13: CR or LF in Command mode with a command buffer that is not w, q or wq
\* sets the status message to "Unknown: " followed by the buffer, returns to
\* Normal mode with an empty buffer, lets the loop go on, and leaves the line
\* store and the cursor as they were.
C13_UnknownCommand ==
    [][((Handled(CR) \/ Handled(LF)) /\ mode = "Command"
            /\ command_buffer \notin {<<KEY_w>>, <<KEY_q>>, <<KEY_w, KEY_q>>})
          => /\ status_msg' = [kind |-> "Unknown", text |-> command_buffer]
             /\ mode' = "Normal"
             /\ command_buffer' = << >>
             /\ pc' = "refresh"
             /\ rows' = rows
             /\ cx' = cx
             /\ cy' = cy
             /\ disk' = disk
             /\ save_attempts' = << >>]_vars

\* C13: the command "qq" was executed: the status message names it, the mode is
\* Normal and the loop goes on.
C13_Witness ==
    /\ buf = CR
    /\ pc = "refresh"
    /\ status_msg = [kind |-> "Unknown", text |-> <<KEY_q, KEY_q>>]
    /\ mode = "Normal"
    /\ command_buffer = << >>

\* The text sub occurs in text.
Contains(text, sub) ==
    \E i \in 1..(Len(text) - Len(sub) + 1) : SubSeq(text, i, i + Len(sub) - 1) = sub

\* C14: with a file name configured, executing "wq" makes exactly one save
\* attempt, of the rows joined by single newlines, and then stops the loop,
\* whether the save succeeds or fails; and once the keys i h i ESC : w q CR
\* have been handled the loop has stopped after one save attempt of a text
\* that contains "hi".
C14_SaveAndQuit ==
    /\ [][((Handled(CR) \/ Handled(LF)) /\ mode = "Command" /\ filename # << >>
             /\ command_buffer = <<KEY_w, KEY_q>>)
           => /\ save_attempts' = <<RowsToString(rows)>>
              /\ rows' = rows
              /\ pc' = "exited"]_vars
    /\ [](script_test.played = QuitScript
            => /\ pc = "exited"
               /\ Len(save_attempts) = 1
               /\ Contains(save_attempts[1], <<KEY_h, KEY_i>>))

\* C14: from the initial state, Normal mode on one empty row, the keys
\* i h i ESC : w q CR were handled; "hi" was handed to a save that failed, and
\* the loop has stopped.
C14_Witness ==
    /\ script_test.rows = NewBuffer
    /\ script_test.played = QuitScript
    /\ pc = "exited"
    /\ save_attempts = << <<KEY_h, KEY_i>> >>
    /\ ~disk.exists

\* The width of the status line that refresh_screen has drawn for this state.
StatusLineWidth ==
    draw_status_bar(mode, cx, cy, status_msg, command_buffer, screen_cols)

\* C15: whenever the screen has been drawn in a mode other than Command, the
\* status line has exactly screen_cols characters.
C15_StatusLineWidth ==
    (pc = "read" /\ mode # "Command") => StatusLineWidth = screen_cols

\* C16: no byte read from the input makes handle_keypress fail: every step that
\* handles a byte leaves the loop running or ends it through its break.
C16_NoKeyAborts == [][pc = "read" => pc' # "panicked"]_vars

\* The body rows of the screen: all rows but the status line, and at least one.
BodyRows == IF screen_rows > 1 THEN screen_rows - 1 ELSE 1

\* What the minimal-scroll policy asks of a step, for a window of b body rows.
MinimalScrollStep(b) ==
    /\ (row_offset <= cy /\ cy < row_offset + b) => row_offset' = row_offset
    /\ cy < row_offset => row_offset' = cy
    /\ (cy >= row_offset /\ cy >= row_offset + b) => row_offset' = cy - b + 1

\* C17: every scroll leaves row_offset alone when the cursor row is within the
\* window of the body rows, and otherwise puts the cursor row on
\* the first body row (it was above) or on the last one (it was below); with
\* 3 lines on a 4-row terminal row_offset stays 0, and a j on row 2 leaves
\* the cursor on row 2.
C17_MinimalScroll ==
    /\ [][Refresh => MinimalScrollStep(BodyRows)]_vars
    /\ []((Len(rows) = 3 /\ screen_rows = 4) => row_offset = 0)
    /\ [][(Handled(KEY_j) /\ Len(rows) = 3 /\ cy = 2) => (cy' = 2 /\ cx' = cx)]_vars

\* On a terminal of two rows or more every scroll follows the policy.
MinimalScrollOnTwoRowsOrMore ==
    [][(Refresh /\ screen_rows >= 2) => MinimalScrollStep(BodyRows)]_vars

\* C18: the line store changes only in Insert mode: no step taken in Normal or
\* Command mode, the execution of a command included, changes the number of
\* rows or the content of a row, and no step taken in Command mode moves the
\* cursor.
C18_ModeGating ==
    [][/\ mode # "Insert" => rows' = rows
       /\ mode = "Command" => (cx' = cx /\ cy' = cy)]_vars

\* C18: the command "w" was executed on the document "hi": the file was written
\* and the document and the cursor are as they were.
C18_Witness ==
    /\ buf = CR
    /\ pc = "refresh"
    /\ mode = "Normal"
    /\ status_msg.kind = "SavedOutput"
    /\ disk.text = <<KEY_h, KEY_i>>
    /\ rows = << <<KEY_h, KEY_i>> >>
    /\ cx = 0
    /\ cy = 0

\* The step leaves the editor as it was and the loop goes on.
NoOp ==
    /\ rows' = rows
    /\ cx' = cx
    /\ cy' = cy
    /\ mode' = mode
    /\ command_buffer' = command_buffer
    /\ status_msg' = status_msg
    /\ pc' = "refresh"

\* C19: in Normal mode h at column 0, l at the end of the line, k on row 0 and
\* j on the last row, and in Insert mode a backspace at column 0 of row 0, each
\* leave the line store, the cursor, the mode, the command buffer and the status
\* message as they were, and the loop goes on.
C19_BoundaryNoOps ==
    [][(\/ /\ mode = "Normal"
           /\ \/ Handled(KEY_h) /\ cx = 0
              \/ Handled(KEY_l) /\ cx = ByteLen(rows[cy + 1])
              \/ Handled(KEY_k) /\ cy = 0
              \/ Handled(KEY_j) /\ cy = Len(rows) - 1
        \/ /\ mode = "Insert"
           /\ Handled(DEL) \/ Handled(BS)
           /\ cx = 0
           /\ cy = 0)
          => NoOp]_vars

\* C19: a j was handled in Normal mode on the only row of a document, with the
\* cursor at the end of the row, and the cursor has stayed there.
C19_Witness ==
    /\ buf = KEY_j
    /\ pc = "refresh"
    /\ mode = "Normal"
    /\ Len(rows) = 1
    /\ cy = 0
    /\ cx = FileLineLen
    /\ cx = ByteLen(rows[1])

RECURSIVE AllChars(_)
\* The contents of all rows, one after the other in row order.
AllChars(rs) == IF rs = << >> THEN << >> ELSE Head(rs) \o AllChars(Tail(rs))

\* C20: CR or LF in Insert mode adds one row, a backspace in Insert mode at
\* column 0 of a row below the first removes one, and neither adds, drops or
\* reorders a character: the contents of all rows, one after the other, are
\* the same before and after.
C20_ContentConserved ==
    [][/\ ((Handled(CR) \/ Handled(LF)) /\ mode = "Insert")
            => (AllChars(rows') = AllChars(rows) /\ Len(rows') = Len(rows) + 1)
       /\ ((Handled(DEL) \/ Handled(BS)) /\ mode = "Insert" /\ cx = 0 /\ cy > 0)
            => (AllChars(rows') = AllChars(rows) /\ Len(rows') = Len(rows) - 1)]_vars

\* Whenever the split does not panic, the claim of C20 holds of the step.
ContentConservedWhenHandled ==
    [][/\ ((Handled(CR) \/ Handled(LF)) /\ mode = "Insert" /\ pc' # "panicked")
            => (AllChars(rows') = AllChars(rows) /\ Len(rows') = Len(rows) + 1)
       /\ ((Handled(DEL) \/ Handled(BS)) /\ mode = "Insert" /\ cx = 0 /\ cy > 0)
            => (AllChars(rows') = AllChars(rows) /\ Len(rows') = Len(rows) - 1)]_vars

====
